---- MODULE Spec2Model ----
(***************************************************************************)
(* The idempotent configuration patch engine of omarchy's customize.py and *)
(* the restore engine of restore.py.                                       *)
(*                                                                         *)
(* Text is a sequence of tokens (a token is a piece of text that the code  *)
(* never splits: a marker, a delimiter part, a line of user text).  The    *)
(* string operations of the code (in, find, slicing, replace, + and the    *)
(* append of a file opened in "a" mode) are computed on these sequences.   *)
(* A path's name is the sequence of its dot-separated parts, so that       *)
(* Path.suffix, Path.stem and Path.with_suffix are computed, not assumed.  *)
(***************************************************************************)
EXTENDS Integers, Sequences, FiniteSets, TLC

----------------------------------------------------------------------------
(* Python str operations, on token sequences *)

\* s[a:b] for 0 <= a, b (empty when a >= b)
Slice(s, a, b) ==
    LET hi == IF b > Len(s) THEN Len(s) ELSE b
    IN  IF a >= hi THEN <<>> ELSE SubSeq(s, a + 1, hi)

\* s[a:]
SliceFrom(s, a) == Slice(s, a, Len(s))

\* s.startswith(sub, i)
MatchAt(s, sub, i) ==
    /\ i + Len(sub) <= Len(s)
    /\ SubSeq(s, i + 1, i + Len(sub)) = sub

\* sub in s
Contains(s, sub) == \E i \in 0..Len(s) : MatchAt(s, sub, i)

\* s.find(sub): the lowest index of an occurrence, -1 when there is none
Find(s, sub) ==
    IF Contains(s, sub)
    THEN CHOOSE i \in 0..Len(s) :
            /\ MatchAt(s, sub, i)
            /\ \A j \in 0..(i - 1) : ~MatchAt(s, sub, j)
    ELSE -1

\* s.count(sub) for a non-empty sub: non-overlapping occurrences, left to right
RECURSIVE Count(_, _)
Count(s, sub) ==
    LET i == Find(s, sub)
    IN  IF i = -1 \/ sub = <<>> THEN 0
        ELSE 1 + Count(SliceFrom(s, i + Len(sub)), sub)

\* s.replace(old, new) for a non-empty old: every non-overlapping occurrence
RECURSIVE Replace(_, _, _)
Replace(s, old, new) ==
    LET i == Find(s, old)
    IN  IF i = -1 \/ old = <<>> THEN s
        ELSE Slice(s, 0, i) \o new \o Replace(SliceFrom(s, i + Len(old)), old, new)

\* "".join(parts)
RECURSIVE Join(_)
Join(parts) ==
    IF parts = <<>> THEN <<>> ELSE Head(parts) \o Join(Tail(parts))

----------------------------------------------------------------------------
(* pathlib.Path: a directory and a name split at its dots *)

\* Path.suffix: the last dot-separated part, "" for a name without one
\* (a leading dot, as in .bashrc, starts no suffix)
Suffix(p) == IF Len(p.name) > 1 THEN <<p.name[Len(p.name)]>> ELSE <<>>

\* Path.stem: the name without its suffix
Stem(p) == IF Len(p.name) > 1 THEN SubSeq(p.name, 1, Len(p.name) - 1) ELSE p.name

\* Path.with_suffix(suffix): the stem with the new suffix (parts) appended
WithSuffix(p, suffix) == [dir |-> p.dir, name |-> Stem(p) \o suffix]

\* Path.parent / name
Sibling(p, name) == [dir |-> p.dir, name |-> name]

\* str(path).endswith('.css')
EndsWithCss(p) == Suffix(p) = <<"css">>

----------------------------------------------------------------------------
(* Bounds of the model *)

\* user text of a target file: 0..MaxUserLines lines
MaxUserLines == 1

\* the user's own edits of the target files in one behaviour
MaxEdits == 1

\* the text of a file handed to add_fenced_content_to_file: 0..MaxPieces
\* pieces, each a user line or a delimiter line
MaxPieces == 2

----------------------------------------------------------------------------
(* The file system: every path holds a file with its text, or no file *)

NoFile == [exists |-> FALSE, text |-> <<>>]
File(t) == [exists |-> TRUE, text |-> t]

Home == "~"
HyprDir == "~/.config/hypr"
WaybarDir == "~/.config/waybar"
ToshyDir == "~/.config/toshy"
KeydDir == "/etc/keyd"

Bashrc == [dir |-> Home, name |-> <<".bashrc">>]
HyprlandConf == [dir |-> HyprDir, name |-> <<"hyprland", "conf">>]
HypridleConf == [dir |-> HyprDir, name |-> <<"hypridle", "conf">>]
WaybarConfig == [dir |-> WaybarDir, name |-> <<"config">>]
WaybarStyle == [dir |-> WaybarDir, name |-> <<"style", "css">>]
ToshyConfig == [dir |-> ToshyDir, name |-> <<"toshy_config", "py">>]
KeydConf == [dir |-> KeydDir, name |-> <<"default", "conf">>]

\* file_path.with_suffix(file_path.suffix + ".original")
BackupPath(p) == WithSuffix(p, Suffix(p) \o <<"original">>)

\* the files main() patches, in the order of its calls
Targets == {Bashrc, HyprlandConf, HypridleConf, WaybarConfig, WaybarStyle}

\* every file a patch session edits
LiveFiles == Targets \cup {ToshyConfig}

Paths == LiveFiles \cup {BackupPath(p) : p \in LiveFiles}
             \cup {KeydConf, BackupPath(KeydConf)}

\* a user's own text: n lines
UserText(n) == [i \in 1..n |-> "user line\n"]
UserTexts == {UserText(n) : n \in 0..MaxUserLines}

----------------------------------------------------------------------------
(* backup_file_before_edit *)

\* what shutil.copy2 can do: copy; fail before the destination is created;
\* fail after it was created and before any byte was written
CopyOutcomes == {"ok", "denied", "truncated"}

\* a backup that copies without looking for an existing sidecar
BackupOverwrites(f, p, copy) ==
    IF ~f[p].exists THEN f
    ELSE CASE copy = "ok" -> [f EXCEPT ![BackupPath(p)] = f[p]]
           [] copy = "denied" -> f
           [] copy = "truncated" -> [f EXCEPT ![BackupPath(p)] = File(<<>>)]

\* the file system after backup_file_before_edit(p)
BackupFileBeforeEdit(f, p, copy) ==
    IF ~f[p].exists THEN f
    ELSE IF f[BackupPath(p)].exists THEN f
    ELSE CASE copy = "ok" -> [f EXCEPT ![BackupPath(p)] = f[p]]
           [] copy = "denied" -> f
           [] copy = "truncated" -> [f EXCEPT ![BackupPath(p)] = File(<<>>)]

\* whether that call wrote to the sidecar
BackupWrites(f, p, copy) ==
    f[p].exists /\ ~f[BackupPath(p)].exists /\ copy # "denied"

----------------------------------------------------------------------------
(* add_fenced_content_to_file *)

StartFence(css, label) ==
    IF css THEN <<"/* === START ">> \o label \o <<" === */">>
    ELSE <<"# === START ">> \o label \o <<" ===">>

EndFence(css, label) ==
    IF css THEN <<"/* === END ">> \o label \o <<" === */">>
    ELSE <<"# === END ">> \o label \o <<" ===">>

\* a presence check that looks for the delimiters of the other file kind
HasBlockOtherKind(content, css, label) ==
    /\ Contains(content, StartFence(~css, label))
    /\ Contains(content, EndFence(~css, label))

\* a presence check that never finds the block
HasBlockNever(content, css, label) == FALSE

\* a presence check that wants the start delimiter before the end delimiter
HasBlockOrdered(content, css, label) ==
    /\ Contains(content, StartFence(css, label))
    /\ Contains(content, EndFence(css, label))
    /\ Find(content, StartFence(css, label)) < Find(content, EndFence(css, label))

\* the check "start_fence in current_content and end_fence in current_content"
HasBlock(content, css, label) ==
    /\ Contains(content, StartFence(css, label))
    /\ Contains(content, EndFence(css, label))

\* for line in content_lines: fenced_content += f"{line}\n"
RECURSIVE FencedLines(_)
FencedLines(lines) ==
    IF lines = <<>> THEN <<>>
    ELSE Head(lines) \o <<"\n">> \o FencedLines(Tail(lines))

\* fenced_content
FencedContent(css, label, lines) ==
    <<"\n">> \o StartFence(css, label) \o <<"\n">>
        \o FencedLines(lines) \o EndFence(css, label) \o <<"\n">>

\* what the file I/O of one call can do
IoOutcomes == {"ok", "read_error", "write_error"}

\* a call that looks for the whole block, its lines included
AddFencedContentChecksLines(f, p, lines, label, io) ==
    LET css == EndsWithCss(p)
        current == IF f[p].exists THEN f[p].text ELSE <<>>
    IN  IF Contains(current, FencedContent(css, label, lines))
        THEN [fs |-> f, ok |-> TRUE, wrote |-> FALSE]
        ELSE [fs |-> [f EXCEPT ![p] = File(current \o FencedContent(css, label, lines))],
              ok |-> TRUE, wrote |-> TRUE]

\* a call that opens the file in "w" mode
AddFencedContentRewrites(f, p, lines, label, io) ==
    LET css == EndsWithCss(p)
        current == IF f[p].exists THEN f[p].text ELSE <<>>
    IN  IF HasBlock(current, css, label)
        THEN [fs |-> f, ok |-> TRUE, wrote |-> FALSE]
        ELSE [fs |-> [f EXCEPT ![p] = File(FencedContent(css, label, lines))],
              ok |-> TRUE, wrote |-> TRUE]

\* add_fenced_content_to_file(p, lines, label): the file system after the
\* call, its return value, and whether it wrote
AddFencedContentToFile(f, p, lines, label, io) ==
    LET css == EndsWithCss(p)
        current == IF f[p].exists THEN f[p].text ELSE <<>>
    IN  IF f[p].exists /\ io = "read_error"
        THEN [fs |-> f, ok |-> FALSE, wrote |-> FALSE]
        ELSE IF HasBlock(current, css, label)
        THEN [fs |-> f, ok |-> TRUE, wrote |-> FALSE]
        ELSE IF io = "write_error"
        THEN [fs |-> f, ok |-> FALSE, wrote |-> FALSE]
        ELSE [fs |-> [f EXCEPT ![p] = File(current \o FencedContent(css, label, lines))],
              ok |-> TRUE, wrote |-> TRUE]

----------------------------------------------------------------------------
(* The patch sessions of the line-oriented files *)

\* a list of one-token lines
Lines(ls) == [i \in DOMAIN ls |-> <<ls[i]>>]

BashCustomizations == Lines(<<
    "unalias n r 2>/dev/null",
    "export EDITOR=\"nano\"",
    "export SUDO_EDITOR=\"$EDITOR\"",
    "alias e='nano'",
    "alias chromium='google-chrome'",
    "parse_git_branch() { git branch 2> /dev/null | sed ...; }",
    "export PS1=\"...$(parse_git_branch)...$ \"",
    "bind 'set show-all-if-ambiguous on'",
    "bind 'TAB:menu-complete'",
    "if [ -f /usr/share/bash-completion/bash_completion ]; then",
    "    source /usr/share/bash-completion/bash_completion",
    "fi" >>)

IdleCustomizations == Lines(<<
    "listener {",
    "    timeout = 900",
    "    on-timeout = systemctl suspend",
    "}" >>)

\* customizations of update_user_hyprland_config, TERMINAL = "alacritty"
HyprlandCustomizations == Lines(<<
    "unbind = SUPER, O",
    "unbind = SUPER, G",
    "unbind = SUPER, slash",
    "unbind = SUPER, N",
    "unbind = SUPER, X",
    "unbind = SUPER SHIFT, X",
    "unbind = SUPER, C",
    "unbind = SUPER, E",
    "unbind = CTRL, F1",
    "unbind = CTRL, F2",
    "unbind = SHIFT CTRL, F2",
    "env = CHROME_FLAGS,\"--enable-features=UseOzonePlatform --ozone-platform=wayland --gtk-version=4\"",
    "exec-once = clipse -listen",
    "windowrule = float, class:(clipse)",
    "windowrule = size 622 652, class:(clipse)",
    "windowrule = stayfocused, class:(clipse)",
    "unbind = SUPER, P",
    "bind = SUPER, P, exec, joplin-desktop",
    "unbind = SUPER, V",
    "bind = CTRL SHIFT, C, exec, alacritty --class clipse -e clipse && hyprctl dispatch sendshortcut 'CTRL,V,'",
    "bind = SUPER, E, fullscreen, 1",
    "unbind = SUPER SHIFT, A",
    "bind = SUPER SHIFT, A, exec, $webapp=\"https://aistudio.google.com/\"",
    "bind = CTRL SHIFT, 4, exec, ~/.local/share/omarchy/bin/omarchy-cmd-screenshot",
    "bind = CTRL SHIFT, 3, exec, ~/.local/bin/omarchy-cmd-screenrecord-audio",
    "bind = SUPER SHIFT, E, resizeactive, 67% 0",
    "windowrule = opacity 1 1, class:.*",
    "input { \n  kb_layout = us,il \n  kb_options = grp:caps_toggle \n  }",
    "misc { \n  new_window_takes_over_fullscreen = 2 \n }\n" >>)

BashLabel == <<"BASH CUSTOMIZATIONS">>
HypridleLabel == <<"HYPRIDLE CUSTOMIZATIONS">>
HyprlandLabel == <<"HYPRLAND CUSTOMIZATIONS">>

\* a bash session that gives up when the backup copy failed
CustomizeBashStopsOnFailedBackup(f, copy, io) ==
    IF f[Bashrc].exists /\ ~f[BackupPath(Bashrc)].exists /\ copy # "ok"
    THEN [fs |-> BackupFileBeforeEdit(f, Bashrc, copy), ok |-> FALSE,
          wrote |-> FALSE]
    ELSE AddFencedContentToFile(BackupFileBeforeEdit(f, Bashrc, copy),
                                Bashrc, BashCustomizations, BashLabel, io)

\* customize_bash_config: the backup, then the fenced append, whether or not
\* ~/.bashrc exists and whatever the backup returned
CustomizeBashConfig(f, copy, io) ==
    AddFencedContentToFile(BackupFileBeforeEdit(f, Bashrc, copy),
                           Bashrc, BashCustomizations, BashLabel, io)

\* a hyprland session that does not return when the file is absent
UpdateHyprlandCreatesFile(f, copy, io) ==
    AddFencedContentToFile(BackupFileBeforeEdit(f, HyprlandConf, copy),
                           HyprlandConf, HyprlandCustomizations,
                           HyprlandLabel, io)

\* update_user_hyprland_config: nothing when the file is absent
UpdateUserHyprlandConfig(f, copy, io) ==
    IF ~f[HyprlandConf].exists
    THEN [fs |-> f, ok |-> FALSE, wrote |-> FALSE]
    ELSE AddFencedContentToFile(BackupFileBeforeEdit(f, HyprlandConf, copy),
                                HyprlandConf, HyprlandCustomizations,
                                HyprlandLabel, io)

\* a hypridle session that appends first and backs up afterwards
UpdateHypridleWritesFirst(f, copy, io) ==
    IF ~f[HypridleConf].exists
    THEN [fs |-> f, ok |-> FALSE, wrote |-> FALSE]
    ELSE LET r == AddFencedContentToFile(f, HypridleConf, IdleCustomizations,
                                         HypridleLabel, io)
         IN  [r EXCEPT !.fs = BackupFileBeforeEdit(r.fs, HypridleConf, copy)]

\* update_user_hypridle_config: nothing when the file is absent
UpdateUserHypridleConfig(f, copy, io) ==
    IF ~f[HypridleConf].exists
    THEN [fs |-> f, ok |-> FALSE, wrote |-> FALSE]
    ELSE AddFencedContentToFile(BackupFileBeforeEdit(f, HypridleConf, copy),
                                HypridleConf, IdleCustomizations,
                                HypridleLabel, io)

----------------------------------------------------------------------------
(* restore.py: find_and_restore_backups *)

\* the fixed list of well-known backup paths
FixedSearchPaths == <<
    [dir |-> Home, name |-> <<".bashrc", "original">>],
    [dir |-> HyprDir, name |-> <<"hyprland", "conf", "original">>],
    [dir |-> HyprDir, name |-> <<"hypridle", "conf", "original">>],
    [dir |-> WaybarDir, name |-> <<"config", "original">>],
    [dir |-> WaybarDir, name |-> <<"style", "css", "original">>],
    [dir |-> ToshyDir, name |-> <<"toshy_config", "py", "original">>],
    [dir |-> KeydDir, name |-> <<"default", "conf", "original">> ] >>

\* the directories below ~/.config (the model has no file below ~/.local/share)
ConfigDirs == {HyprDir, WaybarDir, ToshyDir}

\* config_dir.rglob("*.original"): the existing files below the config
\* directories whose name ends in .original
RGlobOriginal(f) ==
    {q \in Paths : f[q].exists /\ q.dir \in ConfigDirs
                   /\ Suffix(q) = <<"original">>}

\* list(set(search_paths))
SearchPaths(f) ==
    {FixedSearchPaths[i] : i \in DOMAIN FixedSearchPaths} \cup RGlobOriginal(f)

\* a live path derived by dropping every suffix of the backup path
OriginalPathNoSuffix(b) == [dir |-> b.dir, name |-> <<Head(b.name)>>]

\* original_path: backup_path.with_suffix(''), and parent / stem when that
\* still ends in .original
OriginalPath(b) ==
    LET o == WithSuffix(b, <<>>)
    IN  IF Suffix(o) = <<"original">> THEN Sibling(b, Stem(b)) ELSE o

\* the backups the loop copies back
RestoreCandidates(f) == {b \in SearchPaths(f) : b \in Paths /\ f[b].exists}

\* a restore that moves each backup instead of copying it
FindAndRestoreBackupsMoves(f, copy) ==
    [q \in Paths |->
        IF \E b \in RestoreCandidates(f) : OriginalPath(b) = q /\ copy[b] = "ok"
        THEN f[BackupPath(q)]
        ELSE IF q \in RestoreCandidates(f) /\ copy[q] = "ok" THEN NoFile
        ELSE f[q]]

\* the file system after the loop; copy[b] is what shutil.copy2 does for
\* backup b.  No live path of the model is itself a candidate, so the order
\* in which the set is walked does not matter.
FindAndRestoreBackups(f, copy) ==
    [q \in Paths |->
        IF \E b \in RestoreCandidates(f) : OriginalPath(b) = q /\ copy[b] # "denied"
        THEN LET b == CHOOSE c \in RestoreCandidates(f) :
                          OriginalPath(c) = q /\ copy[c] # "denied"
             IN  IF copy[b] = "ok" THEN f[b] ELSE File(<<>>)
        ELSE f[q]]

\* a count over the fixed list and the scan, duplicates kept
RestoredCountWithDuplicates(f, copy) ==
    Cardinality({i \in DOMAIN FixedSearchPaths :
                    /\ FixedSearchPaths[i] \in RestoreCandidates(f)
                    /\ copy[FixedSearchPaths[i]] = "ok"})
    + Cardinality({b \in RGlobOriginal(f) : copy[b] = "ok"})

\* restored_count
RestoredCount(f, copy) ==
    Cardinality({b \in RestoreCandidates(f) : copy[b] = "ok"})

----------------------------------------------------------------------------
(* JSON text, json.loads and json.dumps *)

(* The text of the waybar config is a sequence of JSON tokens: the braces,   *)
(* the comma, a "key": value member, a // line comment, a block comment.     *)
(* A value is a string, an array of strings, an object (its keys) or a       *)
(* number; all carry the same fields.                                        *)
NoValue == [kind |-> "none", items |-> <<>>]
Tok(t) == [t |-> t, k |-> "", v |-> NoValue]
LBrace == Tok("{")
RBrace == Tok("}")
Comma == Tok(",")
LineComment(c) == [t |-> "//", k |-> c, v |-> NoValue]
BlockComment(c) == [t |-> "/**/", k |-> c, v |-> NoValue]
Member(k, v) == [t |-> "member", k |-> k, v |-> v]

Str(s) == [kind |-> "str", items |-> <<s>>]
Arr(a) == [kind |-> "arr", items |-> a]
Obj(keys) == [kind |-> "obj", items |-> keys]
Num == [kind |-> "num", items |-> <<>>]

Range(q) == {q[i] : i \in DOMAIN q}

(* A dict: its items in insertion order, each key once *)
HasKey(m, k) == \E i \in DOMAIN m : m[i].k = k
Get(m, k) == m[CHOOSE i \in DOMAIN m : m[i].k = k].v
\* m[k] = v: in place for a key of m, at the end for a new key
SetItem(m, k, v) ==
    IF HasKey(m, k)
    THEN [i \in DOMAIN m |-> IF m[i].k = k THEN [k |-> k, v |-> v] ELSE m[i]]
    ELSE Append(m, [k |-> k, v |-> v])
Keys(m) == {m[i].k : i \in DOMAIN m}

\* dict(pairs): a repeated key keeps its first place and its last value
RECURSIVE DictOf(_, _)
DictOf(m, members) ==
    IF members = <<>> THEN m
    ELSE DictOf(SetItem(m, Head(members).k, Head(members).v), Tail(members))

\* the text between the braces is member (, member)*
IsMemberList(inner) ==
    /\ Len(inner) % 2 = 1
    /\ \A i \in DOMAIN inner :
          IF i % 2 = 1 THEN inner[i].t = "member" ELSE inner[i] = Comma

MembersOf(inner) == [j \in 1..((Len(inner) + 1) \div 2) |-> inner[2 * j - 1]]

\* json.loads(content): strict JSON, so a comment or a trailing comma is a
\* JSONDecodeError.  [ok, data]
JsonLoads(text) ==
    LET n == Len(text)
        inner == SubSeq(text, 2, n - 1)
    IN  IF n >= 2 /\ text[1] = LBrace /\ text[n] = RBrace
           /\ (inner = <<>> \/ IsMemberList(inner))
        THEN [ok |-> TRUE,
              data |-> IF inner = <<>> THEN <<>>
                       ELSE DictOf(<<>>, MembersOf(inner))]
        ELSE [ok |-> FALSE, data |-> <<>>]

\* json.dumps(config_data, indent=2), without its white space
RECURSIVE DumpMembers(_)
DumpMembers(m) ==
    IF m = <<>> THEN <<>>
    ELSE IF Len(m) = 1 THEN <<Member(m[1].k, m[1].v)>>
    ELSE <<Member(m[1].k, m[1].v), Comma>> \o DumpMembers(Tail(m))

JsonDumps(m) == <<LBrace>> \o DumpMembers(m) \o <<RBrace>>

----------------------------------------------------------------------------
(* customize_waybar *)

ModulesRight == "modules-right"
HyprlandLanguage == "hyprland/language"

\* config_data["hyprland/language"]: the keys of the fixed module object
LanguageModule ==
    Obj(<<"format", "format-en", "format-he", "on-click", "tooltip",
          "tooltip-format">>)

ProvenanceComment ==
    LineComment("OMARCHY CUSTOMIZATION: Added hyprland/language module")

StyleCssLines == Lines(<<
    "/* Language indicator styling */",
    "#language {",
    "    background-color: #2e3440;",
    "    color: #88c0d0;",
    "    border-radius: 3px;",
    "    padding: 0 8px;",
    "    margin: 0 2px;",
    "    font-weight: bold;",
    "}",
    "",
    "#language:hover {",
    "    background-color: #3b4252;",
    "    color: #eceff4;",
    "}" >>)

WaybarStyleLabel == <<"WAYBAR LANGUAGE STYLING">>

\* "hyprland/language" not in config_data["modules-right"]: membership in a
\* list or among a dict's keys, substring of a str; a TypeError for a number
InRaises(v) == v.kind \notin {"arr", "obj", "str"}
In(x, v) ==
    IF v.kind = "str" THEN \E i \in DOMAIN v.items : v.items[i] = x
    ELSE x \in Range(v.items)

\* a merge that sets modules-right to the singleton array whatever it held
MergeReplacesModulesRight(data) ==
    [raised |-> FALSE,
     data |-> SetItem(SetItem(data, ModulesRight, Arr(<<HyprlandLanguage>>)),
                      HyprlandLanguage, LanguageModule)]

\* the else branch of "if 'hyprland/language' in config_data": [raised, data]
MergeLanguageModule(data) ==
    LET mr == Get(data, ModulesRight)
        withRight ==
            IF HasKey(data, ModulesRight)
            THEN IF In(HyprlandLanguage, mr) THEN data
                 ELSE SetItem(data, ModulesRight,
                              Arr(Append(mr.items, HyprlandLanguage)))
            ELSE SetItem(data, ModulesRight, Arr(<<HyprlandLanguage>>))
    IN  IF HasKey(data, ModulesRight)
           /\ (InRaises(mr) \/ (~In(HyprlandLanguage, mr) /\ mr.kind # "arr"))
        THEN [raised |-> TRUE, data |-> data]
        ELSE [raised |-> FALSE,
              data |-> SetItem(withRight, HyprlandLanguage, LanguageModule)]

\* a style.css step that is skipped
WaybarStyleStepSkipped(f, io) == [fs |-> f, ok |-> FALSE, wrote |-> FALSE]

\* the style.css step, lines 829-855
WaybarStyleStep(f, io) ==
    IF f[WaybarStyle].exists
    THEN AddFencedContentToFile(f, WaybarStyle, StyleCssLines,
                                WaybarStyleLabel, io)
    ELSE [fs |-> f, ok |-> FALSE, wrote |-> FALSE]

\* a session that opens the config for writing before it parses it: a text
\* that does not parse leaves the provenance line alone in the file
CustomizeWaybarWritesFirst(f, copyC, copyS, ioC, ioS) ==
    LET f1 == BackupFileBeforeEdit(f, WaybarConfig, copyC)
        f2 == IF f[WaybarStyle].exists
              THEN BackupFileBeforeEdit(f1, WaybarStyle, copyS) ELSE f1
        loaded == JsonLoads(f[WaybarConfig].text)
        merged == MergeLanguageModule(loaded.data)
        f3 == [f2 EXCEPT ![WaybarConfig] =
                  File(<<ProvenanceComment>> \o JsonDumps(merged.data))]
        styleOf(g) == IF g[WaybarStyle].exists THEN {WaybarStyle} ELSE {}
    IN  IF ~f[WaybarConfig].exists
        THEN [fs |-> f, outcome |-> "absent", attempted |-> {}]
        ELSE IF ioC = "read_error"
        THEN [fs |-> f2, outcome |-> "error", attempted |-> {WaybarConfig}]
        ELSE IF ~loaded.ok
        THEN [fs |-> [f2 EXCEPT ![WaybarConfig] = File(<<ProvenanceComment>>)],
              outcome |-> "parse_error", attempted |-> {WaybarConfig}]
        ELSE IF HasKey(loaded.data, HyprlandLanguage)
        THEN [fs |-> WaybarStyleStep(f2, ioS).fs, outcome |-> "already",
              attempted |-> {WaybarConfig} \cup styleOf(f2)]
        ELSE IF merged.raised \/ ioC = "write_error"
        THEN [fs |-> f2, outcome |-> "error", attempted |-> {WaybarConfig}]
        ELSE [fs |-> WaybarStyleStep(f3, ioS).fs, outcome |-> "merged",
              attempted |-> {WaybarConfig} \cup styleOf(f3)]

\* customize_waybar.  copyC, copyS: what the two backup copies do; ioC: the
\* read and the write of the config; ioS: the I/O of the style.css append.
\* outcome: absent | merged | already | parse_error | error;
\* attempted: the files whose patch was attempted
CustomizeWaybar(f, copyC, copyS, ioC, ioS) ==
    LET f1 == BackupFileBeforeEdit(f, WaybarConfig, copyC)
        f2 == IF f[WaybarStyle].exists
              THEN BackupFileBeforeEdit(f1, WaybarStyle, copyS) ELSE f1
        loaded == JsonLoads(f[WaybarConfig].text)
        merged == MergeLanguageModule(loaded.data)
        f3 == [f2 EXCEPT ![WaybarConfig] =
                  File(<<ProvenanceComment>> \o JsonDumps(merged.data))]
        styleOf(g) == IF g[WaybarStyle].exists THEN {WaybarStyle} ELSE {}
    IN  IF ~f[WaybarConfig].exists
        THEN [fs |-> f, outcome |-> "absent", attempted |-> {}]
        ELSE IF ioC = "read_error"
        THEN [fs |-> f2, outcome |-> "error", attempted |-> {WaybarConfig}]
        ELSE IF ~loaded.ok
        THEN [fs |-> f2, outcome |-> "parse_error", attempted |-> {WaybarConfig}]
        ELSE IF HasKey(loaded.data, HyprlandLanguage)
        THEN [fs |-> WaybarStyleStep(f2, ioS).fs, outcome |-> "already",
              attempted |-> {WaybarConfig} \cup styleOf(f2)]
        ELSE IF merged.raised \/ ioC = "write_error"
        THEN [fs |-> f2, outcome |-> "error", attempted |-> {WaybarConfig}]
        ELSE [fs |-> WaybarStyleStep(f3, ioS).fs, outcome |-> "merged",
              attempted |-> {WaybarConfig} \cup styleOf(f3)]

----------------------------------------------------------------------------
(* configure_toshy_keyboard_layout *)

OverrideTag == "OMARCHY CUSTOMIZATION: Override keyboard type"

SettingsMarker ==
    "cnfg.watch_shared_devices()     # Look for network KVM apps and watch logs (on server only)"

\* override_config: the tag occurs in its START and in its END line
OverrideConfig == <<
    "\n        # === START ", OverrideTag,
    " ===\n        cnfg.override_kbtype = 'IBM'     # Use IBM type to avoid Windows/Mac/Chromebook built-in modmaps\n        # === END ",
    OverrideTag, " ===" >>

StartMarker == "###  SLICE_MARK_START: user_custom_modmaps  ###"
EndMarker == "###  SLICE_MARK_END: user_custom_modmaps  ###"
ModmapSignature == "modmap("

\* custom_modmaps: two modmap(...) calls between a START and an END line;
\* {...} stands for the key table and the when clause of a call
CustomModmaps == <<
    "# === START OMARCHY CUSTOMIZATION: Custom modmaps ===\n",
    ModmapSignature, "\"OMARCHY custom layout: Cmd->Ctrl, Ctrl->Alt, keep Super - GUI\", {...})\n\n",
    ModmapSignature, "\"OMARCHY custom layout: Terminals - preserve Ctrl/Alt, keep Super\", {...})\n",
    "# === END OMARCHY CUSTOMIZATION: Custom modmaps ===" >>

\* f"\n\n{custom_modmaps}\n\n"
InsertedModmaps == <<"\n\n">> \o CustomModmaps \o <<"\n\n">>

EmacsMappings == <<
    "C(\"Super-a\"):               C(\"Home\"),                      # Beginning of Line",
    "C(\"Super-e\"):               C(\"End\"),                       # End of Line",
    "C(\"Super-b\"):               C(\"Left\"),",
    "C(\"Super-f\"):               C(\"Right\"),",
    "C(\"Super-n\"):               C(\"Down\"),",
    "C(\"Super-p\"):               C(\"Up\"),",
    "C(\"Super-k\"):              [C(\"Shift-End\"), C(\"Backspace\")],",
    "C(\"Super-d\"):               C(\"Delete\")," >>

Indent == "    "
DisabledSuffix == "  # DISABLED by OMARCHY for Hyprland"

\* step 1: the keyboard type override after every settings marker
OverrideStep(content) ==
    IF Contains(content, <<SettingsMarker>>)
    THEN Replace(content, <<SettingsMarker>>, <<SettingsMarker>> \o OverrideConfig)
    ELSE content

\* step 2, lines 932-952.  found: both markers occur; startIdx, endIdx: the
\* slice; inserted: the block was spliced in; text: the content after it
SpliceStep(content) ==
    LET startIdx == Find(content, <<StartMarker>>) + 1
        endIdx == Find(content, <<EndMarker>>)
        sliceContent == Slice(content, startIdx, endIdx)
    IN  IF Contains(content, <<StartMarker>>) /\ Contains(content, <<EndMarker>>)
        THEN IF ~Contains(sliceContent, <<ModmapSignature>>)
             THEN [found |-> TRUE, inserted |-> TRUE,
                   startIdx |-> startIdx, endIdx |-> endIdx,
                   text |-> Slice(content, 0, startIdx) \o InsertedModmaps
                               \o SliceFrom(content, endIdx)]
             ELSE [found |-> TRUE, inserted |-> FALSE,
                   startIdx |-> startIdx, endIdx |-> endIdx, text |-> content]
        ELSE [found |-> FALSE, inserted |-> FALSE,
              startIdx |-> 0, endIdx |-> 0, text |-> content]

\* step 3: the loop over emacs_mappings
\* a substitution that rewrites the mapping wherever it stands
RECURSIVE DisableMappingsUnanchored(_, _)
DisableMappingsUnanchored(content, mappings) ==
    IF mappings = <<>> THEN content
    ELSE LET m == Head(mappings)
             c == IF Contains(content, <<m>>)
                  THEN Replace(content, <<m>>, <<"# ", m, DisabledSuffix>>)
                  ELSE content
         IN  DisableMappingsUnanchored(c, Tail(mappings))

RECURSIVE DisableMappings(_, _)
DisableMappings(content, mappings) ==
    IF mappings = <<>> THEN content
    ELSE LET m == Head(mappings)
             c == IF Contains(content, <<m>>)
                  THEN Replace(content, <<Indent, m>>,
                               <<Indent, "# ", m, DisabledSuffix>>)
                  ELSE content
         IN  DisableMappings(c, Tail(mappings))

\* the session that goes on and writes when the slice is not found
ToshyTextWritesAnyway(content) ==
    LET c1 == OverrideStep(content)
        sp == SpliceStep(c1)
        c3 == DisableMappings(sp.text, EmacsMappings)
    IN  IF Contains(content, <<OverrideTag>>)
        THEN [write |-> FALSE, text |-> content, outcome |-> "already",
              spliceIn |-> content, splice |-> SpliceStep(<<>>)]
        ELSE [write |-> TRUE, text |-> c3,
              outcome |-> IF sp.found THEN "written" ELSE "markers_not_found",
              spliceIn |-> c1, splice |-> sp]

\* lines 880-975 on the content read: whether the file is written, and with
\* what; the steps' intermediate results
ToshyText(content) ==
    LET c1 == OverrideStep(content)
        sp == SpliceStep(c1)
        c3 == DisableMappings(sp.text, EmacsMappings)
    IN  IF Contains(content, <<OverrideTag>>)
        THEN [write |-> FALSE, text |-> content, outcome |-> "already",
              spliceIn |-> content, splice |-> SpliceStep(<<>>)]
        ELSE IF ~sp.found
        THEN [write |-> FALSE, text |-> content, outcome |-> "markers_not_found",
              spliceIn |-> c1, splice |-> sp]
        ELSE [write |-> TRUE, text |-> c3, outcome |-> "written",
              spliceIn |-> c1, splice |-> sp]

\* configure_toshy_keyboard_layout: [fs, outcome, before, spliceIn, splice]
ConfigureToshyKeyboardLayout(f, copy, io) ==
    LET f1 == BackupFileBeforeEdit(f, ToshyConfig, copy)
        before == f[ToshyConfig].text
        t == ToshyText(before)
        none == [before |-> before, spliceIn |-> before, splice |-> SpliceStep(<<>>)]
    IN  IF ~f[ToshyConfig].exists
        THEN [fs |-> f, outcome |-> "absent"] @@ none
        ELSE IF io = "read_error"
        THEN [fs |-> f1, outcome |-> "error"] @@ none
        ELSE IF t.write /\ io = "write_error"
        THEN [fs |-> f1, outcome |-> "error", before |-> before,
              spliceIn |-> t.spliceIn, splice |-> t.splice]
        ELSE [fs |-> IF t.write
                     THEN [f1 EXCEPT ![ToshyConfig] = File(t.text)] ELSE f1,
              outcome |-> t.outcome, before |-> before,
              spliceIn |-> t.spliceIn, splice |-> t.splice]

----------------------------------------------------------------------------
(* State *)

VARIABLES
    fs,          \* the file system: path -> file
    ioFaults,    \* whether file I/O can fail in this behaviour
    pc,          \* where main() of customize.py is: idle between two runs
    outcome,     \* this run's sessions: what each one reported
    attempted,   \* this run: the files whose patch was attempted
    eligible,    \* this run: the files that existed when their session began
    hist,        \* per live file: what the backup calls and the sessions saw
    lastOp,      \* the last step taken
    edits,       \* the user's edits so far
    changed,     \* the paths whose file the last step changed
    call,        \* the last direct call of add_fenced_content_to_file
    toshy,       \* the last direct call of configure_toshy_keyboard_layout
    waybar,      \* the last direct call of customize_waybar
    session,     \* what the file I/O of the last direct session call did
    restored     \* restored_count of the last restore run

vars == <<fs, ioFaults, pc, outcome, attempted, eligible, hist, lastOp,
          edits, changed, call, toshy, waybar, session, restored>>

Sessions == {"bash", "hyprland", "hypridle", "waybar"}

\* the texts a waybar config holds in the runs of main(): JSON without and
\* with the module key, and JSON with a comment
RunWaybarTexts == {
    <<LBrace, Member("layer", Str("top")), RBrace>>,
    <<LBrace, Member(HyprlandLanguage, LanguageModule), RBrace>>,
    <<LineComment("waybar"), LBrace, Member("layer", Str("top")), RBrace>> }

TextsOf(p) == IF p = WaybarConfig THEN RunWaybarTexts ELSE UserTexts

NoHist == [called |-> FALSE, first |-> NoFile, last |-> NoFile,
           lastHadSidecar |-> FALSE, writes |-> 0,
           mutated |-> FALSE, pristine |-> NoFile]

\* a backup_file_before_edit(p) call on an existing p: the text it saw at
\* the first and at the latest call, and the writes to the sidecar
NoteBackup(h, f, p, copy) ==
    IF ~f[p].exists THEN h
    ELSE [h EXCEPT ![p] =
            [called |-> TRUE,
             first |-> IF h[p].called THEN h[p].first ELSE f[p],
             last |-> f[p],
             lastHadSidecar |-> f[BackupPath(p)].exists,
             writes |-> h[p].writes + (IF BackupWrites(f, p, copy) THEN 1 ELSE 0),
             mutated |-> h[p].mutated,
             pristine |-> h[p].pristine]]

\* a session took the file system from f to g: the state of each file before
\* the engine's first mutation of it
NoteMutation(h, f, g) ==
    [p \in LiveFiles |->
        IF g[p] # f[p] /\ ~h[p].mutated
        THEN [h[p] EXCEPT !.mutated = TRUE, !.pristine = f[p]]
        ELSE h[p]]

CopyChoices == IF ioFaults THEN CopyOutcomes ELSE {"ok"}
IoChoices == IF ioFaults THEN IoOutcomes ELSE {"ok"}

FilesOf(texts) == {NoFile} \cup {File(t) : t \in texts}

\* a file system with these five target files and no other file
FileSystem(b, h, i, c, s) ==
    [q \in Paths |->
        CASE q = Bashrc -> b
          [] q = HyprlandConf -> h
          [] q = HypridleConf -> i
          [] q = WaybarConfig -> c
          [] q = WaybarStyle -> s
          [] OTHER -> NoFile]

NoPath == [dir |-> "", name |-> <<>>]

\* a label that holds the text " ===": its delimiters contain those of "A"
NestedLabel == <<"A", " ===", " v2">>

FenceLabels == {<<"A">>, <<"B">>}
AllLabels == FenceLabels \cup {NestedLabel}

\* no add_fenced_content_to_file call on p yet.  before: the file the last
\* call found; initial: the file before the first call; used: the labels of
\* the calls so far; appended: per label, the lines of the first block the
\* calls appended for it
NoCall(p) ==
    [p |-> p, label |-> <<>>, lines |-> <<>>, made |-> FALSE, ok |-> FALSE,
     wrote |-> FALSE, repeat |-> FALSE, prevWrote |-> FALSE,
     before |-> NoFile, initial |-> NoFile, used |-> {},
     appended |-> [l \in AllLabels |-> <<>>]]

\* no configure_toshy_keyboard_layout call yet
NoToshy ==
    [ran |-> FALSE, again |-> FALSE, outcome |-> "none", before |-> <<>>,
     spliceIn |-> <<>>, splice |-> SpliceStep(<<>>)]

\* no customize_waybar call yet
NoWaybar ==
    [ran |-> FALSE, outcome |-> "none", before |-> NoFile, prev |-> "none",
     attempted |-> {}]

\* copy[p]: what the backup copy of p did ("none": no backup call on p);
\* io: what the read and the write of the session's file did
NoSession == [copy |-> [p \in LiveFiles |-> "none"], io |-> "ok"]

\* a session that called backup_file_before_edit on p, and on q
SessionOf(p, copyP, q, copyQ, io) ==
    [copy |-> [x \in LiveFiles |->
                  IF x = p THEN copyP ELSE IF x = q THEN copyQ ELSE "none"],
     io |-> io]

InitRun ==
    /\ pc = "idle"
    /\ session = NoSession
    /\ toshy = NoToshy
    /\ waybar = NoWaybar
    /\ outcome = [s \in Sessions |-> "none"]
    /\ attempted = {}
    /\ eligible = {}
    /\ hist = [p \in LiveFiles |-> NoHist]
    /\ lastOp = "init"
    /\ edits = 0
    /\ changed = {}
    /\ restored = 0

\* the fresh systems: no sidecar, no engine edit yet; one of the files
\* main() patches may exist, or both waybar files
FreshSystems ==
    {FileSystem(b, NoFile, NoFile, NoFile, NoFile) : b \in FilesOf(UserTexts)}
    \cup {FileSystem(NoFile, h, NoFile, NoFile, NoFile) : h \in FilesOf(UserTexts)}
    \cup {FileSystem(NoFile, NoFile, i, NoFile, NoFile) : i \in FilesOf(UserTexts)}
    \cup {FileSystem(NoFile, NoFile, NoFile, c, s) :
             c \in FilesOf(RunWaybarTexts), s \in FilesOf(UserTexts)}

Init ==
    /\ fs \in FreshSystems
    /\ ioFaults = FALSE
    /\ call = NoCall(NoPath)
    /\ InitRun

----------------------------------------------------------------------------
(* The runs of customize.py and restore.py, and the user's own edits *)

\* every step names itself and the files it changed
Changed(f, g) == {q \in Paths : g[q] # f[q]}
Step(op) ==
    /\ lastOp' = op
    /\ changed' = Changed(fs, fs')
    /\ UNCHANGED <<ioFaults, edits, call, toshy, waybar, session>>

\* main() starts: its sessions run in the order of its calls
StartMain ==
    /\ pc = "idle"
    /\ pc' = "bash"
    /\ restored' = 0
    /\ UNCHANGED <<fs, hist, outcome, attempted, eligible>>
    /\ Step("start")

Report(r) == IF r.ok THEN "ok" ELSE "failed"

RunBash ==
    /\ pc = "bash"
    /\ \E copy \in CopyChoices, io \in IoChoices :
          LET r == CustomizeBashConfig(fs, copy, io)
          IN  /\ fs' = r.fs
              /\ hist' = NoteMutation(NoteBackup(hist, fs, Bashrc, copy), fs, r.fs)
              /\ outcome' = [outcome EXCEPT !["bash"] = Report(r)]
    /\ attempted' = attempted \cup {Bashrc}
    /\ eligible' = eligible \cup {Bashrc}
    /\ pc' = "hyprland"
    /\ UNCHANGED restored
    /\ Step("bash")

\* a session that returns when its file is absent
FileSession(p, r, copy, name) ==
    /\ fs' = r.fs
    /\ hist' = NoteMutation(NoteBackup(hist, fs, p, copy), fs, r.fs)
    /\ outcome' = [outcome EXCEPT ![name] =
                      IF fs[p].exists THEN Report(r) ELSE "absent"]
    /\ attempted' = IF fs[p].exists THEN attempted \cup {p} ELSE attempted
    /\ eligible' = IF fs[p].exists THEN eligible \cup {p} ELSE eligible

RunHyprland ==
    /\ pc = "hyprland"
    /\ \E copy \in CopyChoices, io \in IoChoices :
          FileSession(HyprlandConf, UpdateUserHyprlandConfig(fs, copy, io),
                      copy, "hyprland")
    /\ pc' = "hypridle"
    /\ UNCHANGED restored
    /\ Step("hyprland")

RunHypridle ==
    /\ pc = "hypridle"
    /\ \E copy \in CopyChoices, io \in IoChoices :
          FileSession(HypridleConf, UpdateUserHypridleConfig(fs, copy, io),
                      copy, "hypridle")
    /\ pc' = "waybar"
    /\ UNCHANGED restored
    /\ Step("hypridle")

\* the files the waybar session is to patch: both when the config exists
WaybarEligible(f) ==
    IF f[WaybarConfig].exists
    THEN {WaybarConfig} \cup (IF f[WaybarStyle].exists THEN {WaybarStyle} ELSE {})
    ELSE {}

WaybarSession(copyC, copyS, ioC, ioS) ==
    LET r == CustomizeWaybar(fs, copyC, copyS, ioC, ioS)
        h1 == IF fs[WaybarConfig].exists
              THEN NoteBackup(NoteBackup(hist, fs, WaybarConfig, copyC),
                              fs, WaybarStyle, copyS)
              ELSE hist
    IN  /\ fs' = r.fs
        /\ hist' = NoteMutation(h1, fs, r.fs)
        /\ outcome' = [outcome EXCEPT !["waybar"] = r.outcome]
        /\ attempted' = attempted \cup r.attempted
        /\ eligible' = eligible \cup WaybarEligible(fs)

RunWaybar ==
    /\ pc = "waybar"
    /\ \E copyC, copyS \in CopyChoices, ioC, ioS \in IoChoices :
          WaybarSession(copyC, copyS, ioC, ioS)
    /\ pc' = "summary"
    /\ UNCHANGED restored
    /\ Step("waybar")

\* the sessions whose customization the summary prints as done: the chromium
\* alias (1276), the Chrome and clipse rules (1275, 1280), the Waybar
\* language display (1281); the prints are unconditional
SummaryListed == {"bash", "hyprland", "waybar"}

\* the final summary; main() returns and its run is over
Summary ==
    /\ pc = "summary"
    /\ pc' = "idle"
    /\ outcome' = [s \in Sessions |-> "none"]
    /\ attempted' = {}
    /\ eligible' = {}
    /\ UNCHANGED <<fs, hist, restored>>
    /\ Step("summary")

\* a run of restore.py
Restore ==
    /\ pc = "idle"
    /\ \E copy \in [RestoreCandidates(fs) -> CopyChoices] :
          /\ fs' = FindAndRestoreBackups(fs, copy)
          /\ restored' = RestoredCount(fs, copy)
    /\ UNCHANGED <<pc, hist, outcome, attempted, eligible>>
    /\ Step("restore")

\* between two runs the user rewrites a target file
UserEdit ==
    /\ pc = "idle"
    /\ edits < MaxEdits
    /\ edits' = edits + 1
    /\ \E p \in Targets :
          /\ fs[p].exists
          /\ \E t \in TextsOf(p) : fs' = [fs EXCEPT ![p] = File(t)]
    /\ restored' = 0
    /\ UNCHANGED <<pc, hist, outcome, attempted, eligible, ioFaults, call,
                   toshy, waybar, session>>
    /\ lastOp' = "edit"
    /\ changed' = Changed(fs, fs')

Next ==
    \/ StartMain
    \/ RunBash
    \/ RunHyprland
    \/ RunHypridle
    \/ RunWaybar
    \/ Summary
    \/ Restore
    \/ UserEdit

Spec == Init /\ [][Next]_vars

----------------------------------------------------------------------------
(* Backup sidecars *)

\* C1: whenever a sidecar exists for a target file the engine has edited,
\* its content is the content the target had before the engine's first
\* edit of it.
C1_SidecarHoldsPristine ==
    \A p \in Targets :
        (fs[BackupPath(p)].exists /\ hist[p].mutated)
            => fs[BackupPath(p)] = hist[p].pristine

\* C2: from an existing file with no sidecar, whatever the later calls and
\* mutations of the live file, one sidecar was written, once, and it holds
\* the live file's content at the first backup_file_before_edit call.
C2_BackupOnce ==
    \A p \in Targets :
        hist[p].called =>
            /\ fs[BackupPath(p)].exists
            /\ fs[BackupPath(p)] = hist[p].first
            /\ hist[p].writes = 1

\* a later call found the sidecar while the live file had changed
C2_Witness ==
    \E p \in Targets :
        /\ hist[p].called
        /\ hist[p].lastHadSidecar
        /\ hist[p].last # hist[p].first
        /\ fs[p] # hist[p].first

\* C4 as stated: after backup_file_before_edit on a file with content A and
\* any mutation, the restore leaves the live file with content A.
C4_RestoreYieldsBackedUpContent ==
    lastOp = "restore" =>
        \A p \in Targets : hist[p].called => fs[p] = hist[p].last

\* C4, amended: the restore leaves the live file with the content it had at
\* the first backup call, which is the content A of a call that found no
\* sidecar; and the live path the restore derives from a sidecar path is the
\* path the backup was taken from.
C4_RestoreYieldsFirstBackup ==
    /\ \A p \in LiveFiles : OriginalPath(BackupPath(p)) = p
    /\ lastOp = "restore" =>
          \A p \in Targets :
              hist[p].called =>
                  /\ fs[p] = hist[p].first
                  /\ ~hist[p].lastHadSidecar => fs[p] = hist[p].last

\* a restore has just undone a mutation of a file backed up at content A
C4_Witness ==
    /\ lastOp = "restore"
    /\ \E p \in Targets :
          /\ hist[p].called
          /\ ~hist[p].lastHadSidecar
          /\ p \in changed
          /\ fs[p] = hist[p].last

----------------------------------------------------------------------------
(* Failure isolation *)

\* C5: at the end of a run every file that was there to patch had its patch
\* attempted, whatever failed before it.
C5_FailureIsolation ==
    pc = "summary" => eligible \subseteq attempted

\* C13: the final summary lists a customization as applied only if its
\* session succeeded in this run.
C13_SummaryListsOnlySuccesses ==
    pc = "summary" =>
        \A s \in SummaryListed : outcome[s] \in {"ok", "merged", "already"}

----------------------------------------------------------------------------
(* add_fenced_content_to_file, called on one file again and again *)

\* a file of either kind
FencePaths == {HypridleConf, WaybarStyle}

\* content_lines without delimiter text
FenceLineLists == {Lines(<<"x=1">>), Lines(<<"x=2", "y=3">>)}

\* what a file can hold before the first call, in any order: user lines,
\* the delimiters of "A" of either kind, a delimiter of "B" of either kind
FencePieces ==
    {<<"user line\n">>}
    \cup {StartFence(c, <<"A">>) : c \in BOOLEAN}
    \cup {EndFence(c, <<"A">>) : c \in BOOLEAN}
    \cup {StartFence(FALSE, <<"B">>), EndFence(TRUE, <<"B">>)}

FenceTexts ==
    {Join(ps) : ps \in UNION {[1..n -> FencePieces] : n \in 0..MaxPieces}}

InitFence ==
    /\ \E p \in FencePaths, file \in FilesOf(FenceTexts) :
          /\ fs = [q \in Paths |-> IF q = p THEN file ELSE NoFile]
          /\ call = [NoCall(p) EXCEPT !.initial = file]
    /\ ioFaults = FALSE
    /\ InitRun

\* add_fenced_content_to_file(call.p, lines, label) for a label of labels
FencedCall(labels) ==
    /\ \E label \in labels, lines \in FenceLineLists, io \in IoChoices :
          LET r == AddFencedContentToFile(fs, call.p, lines, label, io)
          IN  /\ fs' = r.fs
              /\ call' = [p |-> call.p, label |-> label, lines |-> lines,
                          made |-> TRUE, ok |-> r.ok, wrote |-> r.wrote,
                          repeat |-> call.made /\ call.label = label
                                       /\ call.lines = lines,
                          prevWrote |-> call.wrote,
                          before |-> fs[call.p],
                          initial |-> call.initial,
                          used |-> call.used \cup {label},
                          appended |->
                              IF r.wrote /\ call.appended[label] = <<>>
                              THEN [call.appended EXCEPT ![label] = lines]
                              ELSE call.appended]
    /\ lastOp' = "fence"
    /\ changed' = Changed(fs, fs')
    /\ UNCHANGED <<ioFaults, pc, outcome, attempted, eligible, hist, edits,
                   restored, toshy, waybar, session>>

FenceCall == FencedCall(FenceLabels)

NextFence == FenceCall

SpecFence == InitFence /\ [][NextFence]_vars

\* C3: a call of add_fenced_content_to_file that repeats the arguments of
\* the call before it reports success, writes nothing and leaves the file as
\* the first call left it.
C3_FencedAppendIdempotent ==
    call.repeat => (call.ok /\ ~call.wrote /\ changed = {})

\* the second of two equal calls, the first of which appended the block
C3_Witness == call.repeat /\ call.prevWrote

\* the content the last call read, "" for an absent file
BeforeText == IF call.before.exists THEN call.before.text ELSE <<>>

\* C12: once a call has appended a block with label L, a later call on the
\* file with label L and other content lines reports the block as present
\* and leaves the file as it was.
C12_LabelGatesAppend ==
    (call.made /\ call.appended[call.label] \notin {<<>>, call.lines})
        => /\ call.ok
           /\ ~call.wrote
           /\ fs[call.p] = call.before

\* a call with the label of an appended block and other lines
C12_Witness ==
    /\ call.made
    /\ call.appended[call.label] \notin {<<>>, call.lines}
    /\ Contains(fs[call.p].text, Join(call.appended[call.label]))
    /\ ~Contains(fs[call.p].text, Join(call.lines))

\* C17: a call finds the block present, and appends nothing, exactly when
\* the start delimiter and the end delimiter of its label both occur in the
\* content it read, wherever they are; otherwise it appends a block.
C17_PresentIffBothDelimiters ==
    call.made =>
        LET css == EndsWithCss(call.p)
            both == /\ Contains(BeforeText, StartFence(css, call.label))
                    /\ Contains(BeforeText, EndFence(css, call.label))
        IN  /\ call.ok
            /\ call.wrote <=> ~both
            /\ both => fs[call.p] = call.before
            /\ ~both => fs[call.p] # call.before

\* a call that found the end delimiter before the start delimiter
C17_Witness ==
    /\ call.made
    /\ ~call.wrote
    /\ LET css == EndsWithCss(call.p)
       IN  /\ Contains(BeforeText, StartFence(css, call.label))
           /\ Contains(BeforeText, EndFence(css, call.label))
           /\ Find(BeforeText, EndFence(css, call.label))
                 < Find(BeforeText, StartFence(css, call.label))

\* C18: a call that adds a block leaves the file with its previous content
\* followed by a newline, the start delimiter line, each content line and
\* the end delimiter line; an absent file is created with just that.
C18_AppendOnly ==
    (call.made /\ call.wrote) =>
        LET css == EndsWithCss(call.p)
            lineTexts == [i \in DOMAIN call.lines |-> call.lines[i] \o <<"\n">>]
        IN  fs[call.p] =
                File(BeforeText \o <<"\n">> \o StartFence(css, call.label)
                        \o <<"\n">> \o Join(lineTexts)
                        \o EndFence(css, call.label) \o <<"\n">>)

\* a block added to a file that held text
C18_Witness ==
    /\ call.made
    /\ call.wrote
    /\ call.before.exists
    /\ call.before.text # <<>>
    /\ Len(fs[call.p].text) > Len(call.before.text)

----------------------------------------------------------------------------
(* configure_toshy_keyboard_layout, called on one file again and again *)

MaxToshyPieces == 3
MaxToshyLen == 14

\* what toshy_config.py can hold before the first call, in any order
ToshyPieces == {
    <<StartMarker>>, <<EndMarker>>, <<ModmapSignature>>, <<"# user line\n">>,
    <<SettingsMarker>>, <<Indent, EmacsMappings[3]>>, <<Indent>>,
    <<EmacsMappings[3]>> }

ToshyTexts ==
    {Join(ps) : ps \in UNION {[1..n -> ToshyPieces] : n \in 0..MaxToshyPieces}}

InitToshy ==
    /\ \E file \in FilesOf(ToshyTexts) :
          fs = [q \in Paths |-> IF q = ToshyConfig THEN file ELSE NoFile]
    /\ ioFaults = FALSE
    /\ call = NoCall(NoPath)
    /\ InitRun

\* configure_toshy_keyboard_layout()
ToshySession ==
    /\ Len(fs[ToshyConfig].text) <= MaxToshyLen
    /\ \E copy \in CopyChoices, io \in IoChoices :
          LET r == ConfigureToshyKeyboardLayout(fs, copy, io)
          IN  /\ fs' = r.fs
              /\ hist' = NoteMutation(NoteBackup(hist, fs, ToshyConfig, copy),
                                      fs, r.fs)
              /\ toshy' = [ran |-> TRUE, again |-> toshy.ran,
                           outcome |-> r.outcome,
                           before |-> r.before, spliceIn |-> r.spliceIn,
                           splice |-> r.splice]
              /\ session' = SessionOf(ToshyConfig, copy, ToshyConfig, copy, io)
    /\ lastOp' = "toshy"
    /\ changed' = Changed(fs, fs')
    /\ UNCHANGED <<ioFaults, pc, outcome, attempted, eligible, edits,
                   restored, call, waybar>>

NextToshy == ToshySession

SpecToshy == InitToshy /\ [][NextToshy]_vars

\* the session reached its marker splice
SplicerRan == toshy.ran /\ toshy.outcome \in {"markers_not_found", "written"}

\* C6: when the marker splice inserts its block, the new content is the old
\* content with the inserted text added immediately after the start marker:
\* the text that lay between the markers is still there, after the block.
C6_SplicePreservesContent ==
    (SplicerRan /\ toshy.splice.inserted) =>
        LET c == toshy.spliceIn
            i == Find(c, <<StartMarker>>) + 1
        IN  toshy.splice.text
                = Slice(c, 0, i) \o InsertedModmaps \o SliceFrom(c, i)

\* C7: the splice pairs the first start marker with the first end marker
\* after it; an end marker before the start marker is never the slice end,
\* and with no end marker after the start marker the outcome is "markers
\* not found" and the file is unchanged.
C7_FirstEndAfterStart ==
    SplicerRan =>
        LET c == toshy.spliceIn
            i == Find(c, <<StartMarker>>) + 1
            rest == SliceFrom(c, i)
            paired == Contains(c, <<StartMarker>>) /\ Contains(rest, <<EndMarker>>)
        IN  /\ toshy.splice.found =>
                  /\ paired
                  /\ toshy.splice.startIdx = i
                  /\ toshy.splice.endIdx = i + Find(rest, <<EndMarker>>)
            /\ ~paired =>
                  /\ toshy.outcome = "markers_not_found"
                  /\ ToshyConfig \notin changed

\* C8: on a file that lacks the start or the end sentinel the session ends
\* normally and writes nothing: no slice, no override, no disabled mapping.
C8_MissingSentinelWritesNothing ==
    (/\ lastOp = "toshy"
     /\ toshy.outcome # "absent"
     /\ \/ ~Contains(toshy.before, <<StartMarker>>)
        \/ ~Contains(toshy.before, <<EndMarker>>))
        => /\ toshy.outcome \in {"markers_not_found", "already"}
           /\ ToshyConfig \notin changed
           /\ fs[ToshyConfig] = File(toshy.before)

\* a file with the settings marker and an emacs mapping, without a sentinel
C8_Witness ==
    /\ lastOp = "toshy"
    /\ toshy.outcome = "markers_not_found"
    /\ Contains(toshy.before, <<SettingsMarker>>)
    /\ Contains(toshy.before, <<Indent, EmacsMappings[3]>>)
    /\ ~Contains(toshy.before, <<EndMarker>>)
    /\ fs[ToshyConfig] = File(toshy.before)

\* C21: after any number of calls the engine's modmap block occurs at most
\* once: a call inserts nothing when "modmap(" occurs between the start
\* marker and the end marker after it, and a call after the first leaves
\* the file as it was.
C21_ModmapBlockOnce ==
    toshy.ran =>
        /\ Count(fs[ToshyConfig].text, CustomModmaps) <= 1
        /\ SplicerRan =>
              LET c == toshy.spliceIn
                  i == Find(c, <<StartMarker>>) + 1
                  rest == SliceFrom(c, i)
                  between == Slice(rest, 0, Find(rest, <<EndMarker>>))
              IN  (/\ Contains(c, <<StartMarker>>)
                   /\ Contains(rest, <<EndMarker>>)
                   /\ Contains(between, <<ModmapSignature>>))
                      => ~toshy.splice.inserted
        /\ toshy.again => ToshyConfig \notin changed

\* C22: the emacs-mapping substitution is idempotent: applied to its own
\* output it changes nothing, the rewritten line no longer matches the
\* indented literal, each indented known line is commented out exactly once,
\* and the substitution changes nothing in a file the session has written.
C22_SubstitutionIdempotent ==
    LET x == fs[ToshyConfig].text
        y == DisableMappings(x, EmacsMappings)
    IN  /\ DisableMappings(y, EmacsMappings) = y
        /\ \A i \in 1..Len(EmacsMappings) :
              LET m == EmacsMappings[i]
              IN  /\ ~Contains(y, <<Indent, m>>)
                  /\ Count(y, <<"# ", m, DisabledSuffix>>)
                        = Count(x, <<Indent, m>>)
                          + Count(x, <<"# ", m, DisabledSuffix>>)
        /\ (toshy.ran /\ toshy.outcome = "written") => y = x

\* a second call has written a file whose mapping line the first call had
\* commented out, and the line is commented out once
C22_Witness ==
    /\ toshy.again
    /\ toshy.outcome = "written"
    /\ Contains(toshy.before,
                <<Indent, "# ", EmacsMappings[3], DisabledSuffix>>)
    /\ Count(fs[ToshyConfig].text,
             <<Indent, "# ", EmacsMappings[3], DisabledSuffix>>) = 1
    /\ ~Contains(fs[ToshyConfig].text, <<Indent, EmacsMappings[3]>>)

----------------------------------------------------------------------------
(* customize_waybar, called on one config again and again *)

MaxMembers == 2

\* the members a config can hold before the first call
WaybarMembers == {
    Member("layer", Str("top")),
    Member(ModulesRight, Arr(<<"clock">>)),
    Member(ModulesRight, Arr(<<HyprlandLanguage>>)),
    Member(ModulesRight, Arr(<<HyprlandLanguage, HyprlandLanguage>>)),
    Member(ModulesRight, Str("clock")),
    Member(ModulesRight, Num),
    Member(HyprlandLanguage, LanguageModule) }

RECURSIVE CommaSeparated(_)
CommaSeparated(ms) ==
    IF ms = <<>> THEN <<>>
    ELSE IF Len(ms) = 1 THEN ms
    ELSE <<Head(ms), Comma>> \o CommaSeparated(Tail(ms))

\* an object of up to MaxMembers members, with or without a comment before
\* or inside it, with or without a comma before its closing brace; and an
\* unterminated object
WaybarTexts ==
    {lead \o <<LBrace>> \o inner \o CommaSeparated(ms) \o trail \o <<RBrace>> :
        lead \in {<<>>, <<LineComment("my bar")>>, <<BlockComment("my bar")>>},
        inner \in {<<>>, <<BlockComment("modules")>>},
        trail \in {<<>>, <<Comma>>},
        ms \in UNION {[1..n -> WaybarMembers] : n \in 0..MaxMembers}}
    \cup {<<LBrace>>}

InitWaybar ==
    /\ \E c \in FilesOf(WaybarTexts), s \in FilesOf(UserTexts) :
          fs = FileSystem(NoFile, NoFile, NoFile, c, s)
    /\ ioFaults = FALSE
    /\ call = NoCall(NoPath)
    /\ InitRun

\* customize_waybar()
WaybarCall ==
    /\ \E copyC, copyS \in CopyChoices, ioC, ioS \in IoChoices :
          LET r == CustomizeWaybar(fs, copyC, copyS, ioC, ioS)
              h1 == IF fs[WaybarConfig].exists
                    THEN NoteBackup(NoteBackup(hist, fs, WaybarConfig, copyC),
                                    fs, WaybarStyle, copyS)
                    ELSE hist
          IN  /\ fs' = r.fs
              /\ hist' = NoteMutation(h1, fs, r.fs)
              /\ waybar' = [ran |-> TRUE, outcome |-> r.outcome,
                            before |-> fs[WaybarConfig],
                            prev |-> waybar.outcome,
                            attempted |-> r.attempted]
              /\ session' = SessionOf(WaybarConfig, copyC, WaybarStyle, copyS, ioC)
    /\ lastOp' = "waybar"
    /\ changed' = Changed(fs, fs')
    /\ UNCHANGED <<ioFaults, pc, outcome, attempted, eligible, edits,
                   restored, call, toshy>>

NextWaybar == WaybarCall

SpecWaybar == InitWaybar /\ [][NextWaybar]_vars

(* JSON-with-comments as the claims describe it: the text without its line   *)
(* and block comments and without a comma before a closing brace.  (A comma  *)
(* before a closing bracket lies inside a value and is not a token here.)    *)
NotComment(x) == x.t \notin {"//", "/**/"}

RECURSIVE DropTrailingCommas(_)
DropTrailingCommas(text) ==
    IF text = <<>> THEN <<>>
    ELSE IF Len(text) >= 2 /\ text[1] = Comma /\ text[2] = RBrace
    THEN DropTrailingCommas(Tail(text))
    ELSE <<Head(text)>> \o DropTrailingCommas(Tail(text))

StripJsonComments(text) == DropTrailingCommas(SelectSeq(text, NotComment))

\* C9: a waybar config that is valid JSON once its comments and trailing
\* commas are removed is not reported as a parse failure.
C9_AcceptsJsonWithComments ==
    (waybar.ran /\ waybar.before.exists
     /\ JsonLoads(StripJsonComments(waybar.before.text)).ok)
        => waybar.outcome # "parse_error"

\* the mapping read by the call and the mapping in the file after it
OldMapping == JsonLoads(waybar.before.text).data
NewMapping == JsonLoads(StripJsonComments(fs[WaybarConfig].text)).data

\* the call read a mapping without the module key
MergeCase ==
    /\ waybar.ran
    /\ waybar.before.exists
    /\ JsonLoads(waybar.before.text).ok
    /\ ~HasKey(OldMapping, HyprlandLanguage)

\* every key other than modules-right and the module key is as it was
UnrelatedKeysKept ==
    /\ Keys(NewMapping) = Keys(OldMapping) \cup {ModulesRight, HyprlandLanguage}
    /\ \A k \in Keys(OldMapping) \ {ModulesRight} :
          Get(NewMapping, k) = Get(OldMapping, k)
    /\ Get(NewMapping, HyprlandLanguage) = LanguageModule

\* C10 as stated: for every parseable mapping without the module key the
\* mapping written back keeps every other key and value, modules-right
\* contains the module name exactly once, and the module key holds the
\* fixed object.
C10_MergeExactlyOnce ==
    MergeCase =>
        /\ waybar.outcome = "merged"
        /\ UnrelatedKeysKept
        /\ Get(NewMapping, ModulesRight).kind = "arr"
        /\ Count(Get(NewMapping, ModulesRight).items, <<HyprlandLanguage>>) = 1

\* modules-right is absent or an array
ModulesRightIsArray ==
    HasKey(OldMapping, ModulesRight) => Get(OldMapping, ModulesRight).kind = "arr"

\* C10, amended: when modules-right is absent or an array, the mapping
\* written back keeps every other key and value, the module key holds the
\* fixed object, and modules-right is the singleton array if it was absent,
\* the old array if that contained the module name (once or more), the old
\* array with the name appended otherwise.  When modules-right is a string
\* or a number without the module name, the call reports an error and
\* leaves the config as it was.
C10_MergePreservesKeys ==
    /\ (MergeCase /\ ModulesRightIsArray)
          => /\ waybar.outcome = "merged"
             /\ UnrelatedKeysKept
             /\ Get(NewMapping, ModulesRight) =
                   IF ~HasKey(OldMapping, ModulesRight)
                   THEN Arr(<<HyprlandLanguage>>)
                   ELSE LET old == Get(OldMapping, ModulesRight).items
                        IN  IF HyprlandLanguage \in Range(old) THEN Arr(old)
                            ELSE Arr(Append(old, HyprlandLanguage))
    /\ (/\ MergeCase
        /\ ~ModulesRightIsArray
        /\ Get(OldMapping, ModulesRight).kind \in {"str", "num"}
        /\ HyprlandLanguage \notin Range(Get(OldMapping, ModulesRight).items))
          => /\ waybar.outcome = "error"
             /\ fs[WaybarConfig] = waybar.before

\* a merge into a mapping with an unrelated key and a modules-right array
\* that lacked the module name
C10_Witness ==
    /\ MergeCase
    /\ waybar.outcome = "merged"
    /\ WaybarConfig \in changed
    /\ HasKey(OldMapping, "layer")
    /\ HasKey(OldMapping, ModulesRight)
    /\ Get(OldMapping, ModulesRight) = Arr(<<"clock">>)

\* C11: when json.loads rejects the text of the waybar config, the call
\* reports a parse failure, returns normally and leaves the config file as
\* it was.
C11_ParseFailureWritesNothing ==
    (waybar.ran /\ waybar.before.exists /\ ~JsonLoads(waybar.before.text).ok)
        => /\ waybar.outcome = "parse_error"
           /\ fs[WaybarConfig] = waybar.before
           /\ WaybarConfig \notin changed

\* a call on an unterminated object
C11_Witness ==
    /\ waybar.ran
    /\ waybar.outcome = "parse_error"
    /\ waybar.before = File(<<LBrace>>)
    /\ fs[WaybarConfig] = File(<<LBrace>>)

\* C14: a call on the config a previous call merged and wrote finds the
\* module key, reports it as already configured, leaves the config as it is
\* and goes on to the style.css step.
C14_SecondRunAlreadyConfigured ==
    (waybar.ran /\ waybar.prev = "merged")
        => /\ waybar.outcome = "already"
           /\ fs[WaybarConfig] = waybar.before
           /\ fs[WaybarStyle].exists => WaybarStyle \in waybar.attempted

\* C19: when the mapping read has the module key, the config is not written,
\* whatever modules-right holds, and the style.css append is still made.
C19_AlreadyConfiguredWritesNothing ==
    (/\ waybar.ran
     /\ waybar.before.exists
     /\ JsonLoads(waybar.before.text).ok
     /\ HasKey(OldMapping, HyprlandLanguage))
        => /\ waybar.outcome = "already"
           /\ fs[WaybarConfig] = waybar.before
           /\ WaybarConfig \notin changed
           /\ fs[WaybarStyle].exists =>
                 /\ WaybarStyle \in waybar.attempted
                 /\ HasBlock(fs[WaybarStyle].text, TRUE, WaybarStyleLabel)

\* the module key was there, modules-right did not name the module, and the
\* call appended the block to style.css
C19_Witness ==
    /\ waybar.ran
    /\ waybar.outcome = "already"
    /\ HasKey(OldMapping, HyprlandLanguage)
    /\ HasKey(OldMapping, ModulesRight)
    /\ Get(OldMapping, ModulesRight) = Arr(<<"clock">>)
    /\ fs[WaybarConfig] = waybar.before
    /\ WaybarStyle \in changed

----------------------------------------------------------------------------
(* add_fenced_content_to_file with any label, a label holding " ===" too *)

MaxLabelPieces == 1

LabelTexts ==
    {Join(ps) : ps \in UNION {[1..n -> FencePieces] : n \in 0..MaxLabelPieces}}

InitLabels ==
    /\ \E p \in FencePaths, file \in FilesOf(LabelTexts) :
          /\ fs = [q \in Paths |-> IF q = p THEN file ELSE NoFile]
          /\ call = [NoCall(p) EXCEPT !.initial = file]
    /\ ioFaults = FALSE
    /\ InitRun

\* a call with the label "A" or with the label that holds " ==="
LabelCall == FencedCall({<<"A">>, NestedLabel})

NextLabels == LabelCall

SpecLabels == InitLabels /\ [][NextLabels]_vars

\* the file had no delimiter of label l before the first call
InitiallyWithout(l) ==
    LET css == EndsWithCss(call.p)
    IN  /\ ~Contains(call.initial.text, StartFence(css, l))
        /\ ~Contains(call.initial.text, EndFence(css, l))

\* the file holds at most one start and at most one end delimiter of l
AtMostOneBlock(l) ==
    LET css == EndsWithCss(call.p)
    IN  /\ Count(fs[call.p].text, StartFence(css, l)) <= 1
        /\ Count(fs[call.p].text, EndFence(css, l)) <= 1

\* a delimiter of label l occurs inside a delimiter of label m
DelimiterInside(l, m) ==
    LET css == EndsWithCss(call.p)
    IN  \E d \in {StartFence(css, l), EndFence(css, l)},
           e \in {StartFence(css, m), EndFence(css, m)} : Contains(e, d)

\* C16 as stated: after any calls, with any labels, on a file that had no
\* delimiter of label L, the file holds at most one start delimiter and at
\* most one end delimiter of L.
C16_OneBlockPerLabel ==
    \A l \in AllLabels : InitiallyWithout(l) => AtMostOneBlock(l)

\* C16, amended: the same, when no call was made with another label whose
\* delimiters contain a delimiter of L.
C16_OneBlockPerPlainLabel ==
    \A l \in AllLabels :
        (/\ InitiallyWithout(l)
         /\ \A m \in call.used \ {l} : ~DelimiterInside(l, m))
            => AtMostOneBlock(l)

\* a block of "A" was appended to a file that held other text, and a later
\* call with "A" and other lines found it
C16_Witness ==
    /\ call.made
    /\ call.label = <<"A">>
    /\ ~call.wrote
    /\ InitiallyWithout(<<"A">>)
    /\ call.initial.text # <<>>
    /\ call.appended[<<"A">>] \notin {<<>>, call.lines}
    /\ call.used = {<<"A">>}
    /\ Count(fs[call.p].text, StartFence(EndsWithCss(call.p), <<"A">>)) = 1
    /\ Count(fs[call.p].text, EndFence(EndsWithCss(call.p), <<"A">>)) = 1

----------------------------------------------------------------------------
(* The patch sessions, called one by one *)

\* toshy_config.py before the first call
SessionToshyTexts == {
    <<SettingsMarker, StartMarker, EndMarker>>,
    <<StartMarker, "# user line\n", EndMarker, Indent, EmacsMappings[3]>>,
    <<SettingsMarker, Indent, EmacsMappings[3]>> }

InitSessions ==
    /\ \/ fs \in FreshSystems
       \/ \E file \in FilesOf(SessionToshyTexts) :
             fs = [q \in Paths |-> IF q = ToshyConfig THEN file ELSE NoFile]
    /\ ioFaults = FALSE
    /\ call = NoCall(NoPath)
    /\ InitRun

\* a direct call of the session name, which patches p and returned r
LineSession(name, p, r, copy, io) ==
    /\ fs' = r.fs
    /\ hist' = NoteMutation(NoteBackup(hist, fs, p, copy), fs, r.fs)
    /\ session' = SessionOf(p, copy, p, copy, io)
    /\ lastOp' = name
    /\ changed' = Changed(fs, fs')
    /\ UNCHANGED <<ioFaults, pc, outcome, attempted, eligible, edits,
                   restored, call, toshy, waybar>>

BashCall ==
    \E copy \in CopyChoices, io \in IoChoices :
        LineSession("bash", Bashrc, CustomizeBashConfig(fs, copy, io), copy, io)

HyprlandCall ==
    \E copy \in CopyChoices, io \in IoChoices :
        LineSession("hyprland", HyprlandConf,
                    UpdateUserHyprlandConfig(fs, copy, io), copy, io)

HypridleCall ==
    \E copy \in CopyChoices, io \in IoChoices :
        LineSession("hypridle", HypridleConf,
                    UpdateUserHypridleConfig(fs, copy, io), copy, io)

NextSessions ==
    \/ BashCall
    \/ HyprlandCall
    \/ HypridleCall
    \/ WaybarCall
    \/ ToshySession

SpecSessions == InitSessions /\ [][NextSessions]_vars

\* the sessions of the line-oriented files, with file I/O that can fail
InitFaulty ==
    /\ fs \in FreshSystems
    /\ ioFaults = TRUE
    /\ call = NoCall(NoPath)
    /\ InitRun

NextFaulty ==
    \/ BashCall
    \/ HyprlandCall
    \/ HypridleCall

SpecFaulty == InitFaulty /\ [][NextFaulty]_vars

\* the last session found p, with or without its sidecar
Found(p) == session.copy[p] # "none" /\ hist[p].called

\* C15: a session calls backup_file_before_edit on a file before it writes
\* it: when the session wrote a file it found without a sidecar and the copy
\* did not fail, the sidecar holds the content the file had before the
\* write; a sidecar that was there is left alone.
C15_BackupBeforeWrite ==
    \A p \in LiveFiles :
        (Found(p) /\ p \in changed) =>
            /\ (~hist[p].lastHadSidecar /\ session.copy[p] = "ok")
                  => /\ fs[BackupPath(p)] = hist[p].last
                     /\ fs[BackupPath(p)] # fs[p]
            /\ hist[p].lastHadSidecar => BackupPath(p) \notin changed

\* a session backed a file up and then wrote it
C15_Witness ==
    \E p \in LiveFiles :
        /\ Found(p)
        /\ p \in changed
        /\ BackupPath(p) \in changed
        /\ session.copy[p] = "ok"
        /\ fs[BackupPath(p)] = hist[p].last

\* the last session's backup copy of p failed
BackupFailed(p) ==
    /\ Found(p)
    /\ ~hist[p].lastHadSidecar
    /\ session.copy[p] \in {"denied", "truncated"}

\* the label of the block the session of p appends
LabelOf(p) ==
    IF p = Bashrc THEN BashLabel
    ELSE IF p = HyprlandConf THEN HyprlandLabel ELSE HypridleLabel

\* C20: a backup copy that fails stops nothing: the call returns, and with a
\* read and a write that succeed the session has appended its block to the
\* file.
C20_FailedBackupDoesNotBlock ==
    \A p \in {Bashrc, HyprlandConf, HypridleConf} :
        (BackupFailed(p) /\ session.io = "ok") =>
            /\ HasBlock(fs[p].text, FALSE, LabelOf(p))
            /\ ~HasBlock(hist[p].last.text, FALSE, LabelOf(p)) =>
                  /\ p \in changed
                  /\ fs[p].text = hist[p].last.text
                        \o FencedContent(FALSE, LabelOf(p),
                               IF p = Bashrc THEN BashCustomizations
                               ELSE IF p = HyprlandConf THEN HyprlandCustomizations
                               ELSE IdleCustomizations)

\* the backup copy of ~/.bashrc failed and the block was appended
C20_Witness ==
    /\ lastOp = "bash"
    /\ BackupFailed(Bashrc)
    /\ session.copy[Bashrc] = "denied"
    /\ ~fs[BackupPath(Bashrc)].exists
    /\ Bashrc \in changed
    /\ HasBlock(fs[Bashrc].text, FALSE, BashLabel)

----------------------------------------------------------------------------
(* find_and_restore_backups, called between the sessions of two files *)

\* ~/.bashrc and hyprland.conf, each absent or holding the user's text
RestoreSystems ==
    {FileSystem(b, h, NoFile, NoFile, NoFile) :
        b \in FilesOf(UserTexts), h \in FilesOf(UserTexts)}

RestoreOps == {"restore", "restore again"}

\* a direct call of find_and_restore_backups; session.copy[p] is what the
\* copy of p's backup did, "none" when there was no backup to copy
RestoreCall ==
    \E copy \in [RestoreCandidates(fs) -> CopyChoices] :
        /\ fs' = FindAndRestoreBackups(fs, copy)
        /\ restored' = RestoredCount(fs, copy)
        /\ session' = [copy |-> [p \in LiveFiles |->
                                    IF BackupPath(p) \in RestoreCandidates(fs)
                                    THEN copy[BackupPath(p)] ELSE "none"],
                       io |-> "ok"]
        /\ lastOp' = IF lastOp \in RestoreOps THEN "restore again"
                      ELSE "restore"
        /\ changed' = Changed(fs, fs')
        /\ UNCHANGED <<ioFaults, pc, outcome, attempted, eligible, edits,
                       hist, call, toshy, waybar>>

\* a direct call of the session of ~/.bashrc or of hyprland.conf, none of
\* whose file operations fails
PatchCall ==
    \E p \in {Bashrc, HyprlandConf} :
        IF p = Bashrc
        THEN LineSession("bash", p, CustomizeBashConfig(fs, "ok", "ok"),
                         "ok", "ok")
        ELSE LineSession("hyprland", p,
                         UpdateUserHyprlandConfig(fs, "ok", "ok"), "ok", "ok")

NextRestore ==
    \/ PatchCall
    \/ RestoreCall

\* copies of the restore that can fail
InitRestoreFaulty ==
    /\ fs \in RestoreSystems
    /\ ioFaults = TRUE
    /\ call = NoCall(NoPath)
    /\ InitRun

SpecRestoreFaulty == InitRestoreFaulty /\ [][NextRestore]_vars

\* copies of the restore that do not fail
InitRestore ==
    /\ fs \in RestoreSystems
    /\ ioFaults = FALSE
    /\ call = NoCall(NoPath)
    /\ InitRun

SpecRestore == InitRestore /\ [][NextRestore]_vars

\* C23: one restore run tries the copy of each existing sidecar once, also
\* of a sidecar that is in the fixed list and found by the scan; the count
\* is the number of sidecars whose copy succeeded; a failed copy is not
\* counted and the sidecars after it are still copied back.
C23_RestoreCountsDistinctCopies ==
    lastOp \in RestoreOps =>
        /\ \A p \in LiveFiles :
              /\ session.copy[p] # "none" <=> fs[BackupPath(p)].exists
              /\ session.copy[p] = "ok" => fs[p] = fs[BackupPath(p)]
              /\ session.copy[p] \in {"none", "denied"} => p \notin changed
        /\ restored = Cardinality({p \in LiveFiles : session.copy[p] = "ok"})

\* the copy of ~/.bashrc.original failed and the sidecar of hyprland.conf,
\* which the fixed list and the scan both name, was copied back and counted
\* once
C23_Witness ==
    /\ lastOp \in RestoreOps
    /\ session.copy[Bashrc] = "denied"
    /\ session.copy[HyprlandConf] = "ok"
    /\ BackupPath(HyprlandConf) \in RGlobOriginal(fs)
    /\ \E i \in DOMAIN FixedSearchPaths :
          FixedSearchPaths[i] = BackupPath(HyprlandConf)
    /\ HyprlandConf \in changed
    /\ restored = 1

----------------------------------------------------------------------------
(* absent targets in the runs of customize.py *)

\* the sessions that return when their file is absent, the file, and the
\* place of main() after the session
AbsentCases == {
    <<"hyprland", HyprlandConf, "hypridle">>,
    <<"hypridle", HypridleConf, "waybar">>,
    <<"waybar", WaybarConfig, "summary">> }

\* C25: an absent target is a normal case: backup_file_before_edit on an
\* absent path leaves the file system as it is (the bash session, which
\* calls it on an absent ~/.bashrc, ends well and without a sidecar); the
\* sessions of hyprland.conf, hypridle.conf and the waybar config change no
\* file when their target is absent, main() goes on to what follows, and
\* every session has run when main() reaches its summary.
C25_AbsentTargetIsNormal ==
    /\ \A p \in LiveFiles, copy \in CopyOutcomes :
          ~fs[p].exists => BackupFileBeforeEdit(fs, p, copy) = fs
    /\ (lastOp = "bash" /\ ~hist[Bashrc].called) =>
          /\ ~fs[BackupPath(Bashrc)].exists
          /\ outcome["bash"] = "ok"
    /\ \A c \in AbsentCases :
          (lastOp = c[1] /\ outcome[c[1]] = "absent") =>
              /\ changed = {}
              /\ ~fs[c[2]].exists
              /\ ~fs[BackupPath(c[2])].exists
              /\ pc = c[3]
    /\ pc = "summary" => \A s \in Sessions : outcome[s] # "none"

\* main() is at its summary: hyprland.conf and the waybar config were
\* absent and are still absent, without sidecar, and the hypridle session
\* between them has patched its file
C25_Witness ==
    /\ pc = "summary"
    /\ outcome["hyprland"] = "absent"
    /\ outcome["hypridle"] = "ok"
    /\ outcome["waybar"] = "absent"
    /\ hist[HypridleConf].mutated
    /\ \A p \in {HyprlandConf, WaybarConfig} :
          ~fs[p].exists /\ ~fs[BackupPath(p)].exists

============================================================================
